---- MODULE Spec2Model ----
(***************************************************************************)
(* Model of AdvancedTempoProcessor (main.py): the dashboard orchestrator,  *)
(* its result cache, the concentration simulator, the vulnerability        *)
(* analyser and the trend/forecast generators, and the /api/dashboard      *)
(* endpoint that serves them.                                              *)
(*                                                                         *)
(* Numbers.  The program computes with Python floats, and so does the      *)
(* model: a concentration is a float (sign, 53-bit significand, exponent), *)
(* multiplied, added, compared, truncated and rounded as binary64 does.    *)
(* What enters from outside is a decimal: coordinates are integers in      *)
(* 10^-4 degree, upstream weather values in hundredths, upstream pm25 in   *)
(* thousandths, normal samples in thousandths; each becomes the float      *)
(* nearest to it.  What round(x, n) reports is a decimal again: reported   *)
(* concentrations and pm25 are integers in hundredths, weather_data in     *)
(* tenths.  Times are whole seconds; a timestamp's isoformat() is modelled *)
(* by the second it names.                                                 *)
(* An absent dictionary key / None is <<>>, a present value v is <<v>>.    *)
(***************************************************************************)
EXTENDS Integers, Sequences, FiniteSets, TLC

VARIABLES cache, now, last, reqs, probe

vars == <<cache, now, last, reqs, probe>>

None == <<>>

Some(v) == <<v>>

IsSome(o) == Len(o) = 1

\* dict.get(key, default)
Get(o, default) == IF IsSome(o) THEN o[1] ELSE default

Min(a, b) == IF a <= b THEN a ELSE b

-----------------------------------------------------------------------------
(* Natural numbers of any size, for the 53-bit significands of Python's    *)
(* floats and their exact products: a sequence of digits in base Limb,     *)
(* least significant first, with no leading zero digit; zero is <<>>.      *)

\* the digit base, 2^LimbBits
LimbBits == 14

Limb == 2^LimbBits

RECURSIVE NatStrip(_)
NatStrip(a) ==
    IF a # <<>> /\ a[Len(a)] = 0 THEN NatStrip(SubSeq(a, 1, Len(a) - 1)) ELSE a

\* from an integer 0 <= n < 2^31
RECURSIVE NatOf(_)
NatOf(n) == IF n = 0 THEN <<>> ELSE <<n % Limb>> \o NatOf(n \div Limb)

\* to an integer; the value is below 2^31
RECURSIVE NatToInt(_)
NatToInt(a) == IF a = <<>> THEN 0 ELSE a[1] + Limb * NatToInt(Tail(a))

RECURSIVE NatAddC(_, _, _)
NatAddC(a, b, carry) ==
    IF a = <<>> /\ b = <<>> THEN NatOf(carry)
    ELSE LET s == (IF a = <<>> THEN 0 ELSE a[1]) + (IF b = <<>> THEN 0 ELSE b[1]) + carry
         IN  <<s % Limb>> \o NatAddC(IF a = <<>> THEN a ELSE Tail(a),
                                     IF b = <<>> THEN b ELSE Tail(b), s \div Limb)

NatAdd(a, b) == NatAddC(a, b, 0)

RECURSIVE NatSubB(_, _, _)
NatSubB(a, b, borrow) ==
    IF a = <<>> THEN <<>>
    ELSE LET d == a[1] - (IF b = <<>> THEN 0 ELSE b[1]) - borrow
         IN  <<d % Limb>> \o NatSubB(Tail(a), IF b = <<>> THEN b ELSE Tail(b),
                                     IF d < 0 THEN 1 ELSE 0)

\* a - b for a >= b
NatSub(a, b) == NatStrip(NatSubB(a, b, 0))

\* -1, 0 or 1 as a < b, a = b or a > b
RECURSIVE NatCmp(_, _)
NatCmp(a, b) ==
    IF Len(a) # Len(b) THEN (IF Len(a) < Len(b) THEN -1 ELSE 1)
    ELSE IF a = <<>> THEN 0
    ELSE LET n == Len(a)
         IN  IF a[n] # b[n] THEN (IF a[n] < b[n] THEN -1 ELSE 1)
             ELSE NatCmp(SubSeq(a, 1, n - 1), SubSeq(b, 1, n - 1))

\* a * k + carry for 0 < k <= 2^16
RECURSIVE NatMulC(_, _, _)
NatMulC(a, k, carry) ==
    IF a = <<>> THEN NatOf(carry)
    ELSE LET s == a[1] * k + carry
         IN  <<s % Limb>> \o NatMulC(Tail(a), k, s \div Limb)

RECURSIVE NatMulR(_, _)
NatMulR(a, b) ==
    IF a = <<>> \/ b = <<>> THEN <<>>
    ELSE NatAdd(IF b[1] = 0 THEN <<>> ELSE NatMulC(a, b[1], 0),
                <<0>> \o NatMulR(a, Tail(b)))

NatMul(a, b) == NatStrip(NatMulR(a, b))

\* quotient and remainder of a by 0 < d < 2^17
RECURSIVE NatDivMod(_, _)
NatDivMod(a, d) ==
    IF a = <<>> THEN [q |-> <<>>, r |-> 0]
    ELSE LET hi == NatDivMod(Tail(a), d)
             cur == hi.r * Limb + a[1]
         IN  [q |-> <<cur \div d>> \o hi.q, r |-> cur % d]

\* a * 2^n
NatShl(a, n) ==
    IF a = <<>> THEN <<>>
    ELSE [i \in 1..(n \div LimbBits) |-> 0] \o NatMulC(a, 2^(n % LimbBits), 0)

\* a \div 2^n
NatShr(a, n) ==
    IF n \div LimbBits >= Len(a) THEN <<>>
    ELSE NatStrip(NatDivMod(SubSeq(a, n \div LimbBits + 1, Len(a)), 2^(n % LimbBits)).q)

RECURSIVE IntBits(_)
IntBits(n) == IF n = 0 THEN 0 ELSE 1 + IntBits(n \div 2)

\* the number of binary digits of a
NatBits(a) == IF a = <<>> THEN 0 ELSE LimbBits * (Len(a) - 1) + IntBits(a[Len(a)])

\* the binary digit of a that counts 2^k
NatBit(a, k) ==
    IF k \div LimbBits >= Len(a) THEN 0
    ELSE (a[k \div LimbBits + 1] \div 2^(k % LimbBits)) % 2

\* whether a is a multiple of 2^k
NatLowZero(a, k) ==
    /\ \A i \in 1..Min(k \div LimbBits, Len(a)) : a[i] = 0
    /\ k \div LimbBits < Len(a) => a[k \div LimbBits + 1] % 2^(k % LimbBits) = 0

\* whether a / 2^n lies nearer to the integer above it than to the one
\* below, or midway with the one above even; above marks a value strictly
\* between a and a + 1
NatRoundsUp(a, n, above) ==
    /\ NatBit(a, n - 1) = 1
    /\ above \/ ~NatLowZero(a, n - 1) \/ NatBit(a, n) = 1

\* a + 1
RECURSIVE NatInc(_)
NatInc(a) ==
    IF a = <<>> THEN <<1>>
    ELSE IF a[1] + 1 < Limb THEN <<a[1] + 1>> \o Tail(a)
    ELSE <<0>> \o NatInc(Tail(a))

NatBump(q, up) == IF up THEN NatInc(q) ELSE q

\* a / 2^n to the nearest integer, ties to even
NatShrNearest(a, n, above) ==
    IF n = 0 THEN a ELSE NatBump(NatShr(a, n), NatRoundsUp(a, n, above))

\* a * 2^k to the nearest integer, ties to even
NatScale(a, k, above) == IF k >= 0 THEN NatShl(a, k) ELSE NatShrNearest(a, -k, above)

-----------------------------------------------------------------------------
(* Python floats: IEEE 754 binary64, round to nearest, ties to even.  A    *)
(* float is its sign, its significand m (zero, or 2^52 <= m < 2^53) and    *)
(* its exponent e, with value m * 2^e.  Infinities, NaN and subnormals lie *)
(* outside the magnitudes the program computes with and are left out.      *)

\* the width of a binary64 significand
MantissaBits == 53

\* the least significand, 2^52
MinMantissa ==
    [i \in 1..((MantissaBits - 1) \div LimbBits + 1) |->
        IF i = (MantissaBits - 1) \div LimbBits + 1 THEN 2^((MantissaBits - 1) % LimbBits) ELSE 0]

\* a significand that rounding carried to 2^53 is 2^52 again
FloatCarry(neg, m, e) ==
    IF NatBits(m) > MantissaBits THEN [neg |-> neg, m |-> MinMantissa, e |-> e + 1]
    ELSE [neg |-> neg, m |-> m, e |-> e]

\* n * 2^e with the drop lowest binary digits of n rounded away
FloatFit(neg, n, e, above, drop) == FloatCarry(neg, NatScale(n, -drop, above), e + drop)

\* the float nearest to (-1)^neg * n * 2^e
FloatPack(neg, n, e, above) ==
    IF n = <<>> THEN [neg |-> neg, m |-> <<>>, e |-> 0]
    ELSE FloatFit(neg, n, e, above, NatBits(n) - MantissaBits)

\* the headroom, in bits, of the quotient that gives a decimal's float
DecimalShift == 84

FloatOfQuotient(neg, dm) == FloatPack(neg, NatStrip(dm.q), -DecimalShift, dm.r # 0)

\* the float of the decimal n / d (a literal of the source, a parsed query
\* parameter or JSON number), for |n| < 2^31 and 0 < d < 2^17
Float(n, d) ==
    FloatOfQuotient(n < 0, NatDivMod(NatShl(NatOf(IF n < 0 THEN -n ELSE n), DecimalShift), d))

\* the float of an int operand n, |n| < 2^31: exact
FloatOfInt(n) ==
    IF n = 0 THEN [neg |-> FALSE, m |-> <<>>, e |-> 0]
    ELSE [neg |-> n < 0,
          m |-> NatShl(NatOf(IF n < 0 THEN -n ELSE n),
                       MantissaBits - IntBits(IF n < 0 THEN -n ELSE n)),
          e |-> IntBits(IF n < 0 THEN -n ELSE n) - MantissaBits]

FloatNeg(x) == [x EXCEPT !.neg = ~x.neg]

\* abs(x)
FloatAbs(x) == [x EXCEPT !.neg = FALSE]

\* x * y
FloatMul(x, y) == FloatPack(x.neg # y.neg, NatMul(x.m, y.m), x.e + y.e, FALSE)

\* the sum of two numbers given by sign and magnitude, c comparing the
\* magnitudes: equal magnitudes of opposite sign give 0.0
FloatSum(xneg, xn, yneg, yn, c, e) ==
    FloatPack(IF xneg = yneg THEN xneg ELSE IF c = 0 THEN FALSE
              ELSE IF c > 0 THEN xneg ELSE yneg,
              IF xneg = yneg THEN NatAdd(xn, yn)
              ELSE NatSub(IF c >= 0 THEN xn ELSE yn, IF c >= 0 THEN yn ELSE xn),
              e, FALSE)

FloatAligned(xneg, xn, yneg, yn, e) == FloatSum(xneg, xn, yneg, yn, NatCmp(xn, yn), e)

\* x + y
FloatAdd(x, y) ==
    FloatAligned(x.neg, NatShl(x.m, x.e - Min(x.e, y.e)),
                 y.neg, NatShl(y.m, y.e - Min(x.e, y.e)), Min(x.e, y.e))

\* x - y
FloatSub(x, y) == FloatAdd(x, FloatNeg(y))

\* -1, 0 or 1 as |x| < |y|, |x| = |y| or |x| > |y|
FloatCmpAbs(x, y) ==
    IF x.m = <<>> \/ y.m = <<>>
       THEN (IF x.m = y.m THEN 0 ELSE IF x.m = <<>> THEN -1 ELSE 1)
    ELSE IF x.e # y.e THEN (IF x.e < y.e THEN -1 ELSE 1)
    ELSE NatCmp(x.m, y.m)

\* x < y
FloatLess(x, y) ==
    IF x.neg = y.neg
       THEN (IF x.neg THEN FloatCmpAbs(x, y) > 0 ELSE FloatCmpAbs(x, y) < 0)
    ELSE x.neg /\ (x.m # <<>> \/ y.m # <<>>)

\* max(x, y): y when it is the greater, else x
FloatMax(x, y) == IF FloatLess(x, y) THEN y ELSE x

\* int(x): truncation toward zero
FloatInt(x) ==
    (IF x.neg THEN -1 ELSE 1)
        * NatToInt(IF x.e >= 0 THEN NatShl(x.m, x.e) ELSE NatShr(x.m, -x.e))

\* rint(x): the nearest whole number, ties to even
FloatRint(x) ==
    (IF x.neg THEN -1 ELSE 1) * NatToInt(NatScale(x.m, x.e, FALSE))

\* round(x, ndigits) as the integer x * p to the nearest, p = 10^ndigits:
\* the decimal nearest to the float's exact value, ties to even
FloatRound(x, p) ==
    (IF x.neg THEN -1 ELSE 1) * NatToInt(NatScale(NatMulC(x.m, p, 0), x.e, FALSE))

-----------------------------------------------------------------------------
(* Area classification and the per-area tables *)

\* the float of a coordinate given in 10^-4 degree
Degrees(x) == Float(x, 10000)

\* abs(x - c) < r, c in hundredths and r in tenths
Within(x, c, r) == FloatLess(FloatAbs(FloatSub(x, Float(c, 100))), Float(r, 10))

\* abs(lat) > 10 and abs(lat) < 60, lat a float
MajorLatitude(lat) ==
    /\ FloatLess(FloatOfInt(10), FloatAbs(lat))
    /\ FloatLess(FloatAbs(lat), FloatOfInt(60))

_is_major_urban(lat, lon) == MajorLatitude(Degrees(lat))

\* the boxes of lines 166-178 in the order they are tested: the centre
\* (lat, lon) in hundredths, the half-width in tenths; lon + 99.13 is
\* lon - (-99.13)
area_boxes ==
    <<[centre |-> <<1943, -9913>>, r |-> 5, area_type |-> "urban_center_high"],
      [centre |-> <<4070, -7400>>, r |-> 5, area_type |-> "urban_center"],
      [centre |-> <<3400, -11820>>, r |-> 5, area_type |-> "urban_center_high"],
      [centre |-> <<2570, -10030>>, r |-> 10, area_type |-> "industrial_heavy"],
      [centre |-> <<3250, -11700>>, r |-> 10, area_type |-> "industrial"],
      [centre |-> <<2860, 7720>>, r |-> 10, area_type |-> "urban_center_extreme"],
      [centre |-> <<3990, 11640>>, r |-> 10, area_type |-> "urban_center_extreme"]>>

\* both conditions of one test of the chain; point: the floats (lat, lon)
InsideBox(point, box) ==
    \A axis \in 1..2 : Within(point[axis], box.centre[axis], box.r)

\* the boxes that hold the point
BoxesHolding(point) == {i \in DOMAIN area_boxes : InsideBox(point, area_boxes[i])}

\* the first test of the chain that succeeds decides, else lines 179-182
FirstBox(hits, lat, lon) ==
    IF hits # {}
       THEN area_boxes[CHOOSE i \in hits : \A j \in hits : i <= j].area_type
    ELSE IF _is_major_urban(lat, lon) THEN "urban_center"
    ELSE "residential"

_classify_area(lat, lon) ==
    FirstBox(BoxesHolding(<<Degrees(lat), Degrees(lon)>>), lat, lon)

_identify_vulnerable_groups(area_type) ==
    <<"children", "elderly", "asthmatics">> \o
    (IF area_type \in {"urban_center_high", "urban_center_extreme"}
        THEN <<"schools", "hospitals", "outdoor_workers", "low_income">>
     ELSE IF area_type = "urban_center"
        THEN <<"schools", "hospitals", "outdoor_workers">>
     ELSE IF area_type \in {"industrial", "industrial_heavy"}
        THEN <<"schools", "low_income", "outdoor_workers">>
     ELSE IF area_type = "residential"
        THEN <<"schools", "elderly_communities">>
     ELSE <<>>)

\* the float of a normal sample given in thousandths
Sample(n) == Float(n, 1000)

\* the mean of lines 274-285 for the area
area_mean(area_type) ==
    IF area_type = "urban_center_extreme" THEN 120
    ELSE IF area_type = "urban_center_high" THEN 80
    ELSE IF area_type = "industrial_heavy" THEN 90
    ELSE IF area_type = "urban_center" THEN 60
    ELSE IF area_type = "industrial" THEN 70
    ELSE 30

\* _get_base_no2_for_area: mean + one normal sample (a float)
_get_base_no2_for_area(area_type, noise) == FloatAdd(FloatOfInt(area_mean(area_type)), noise)

\* urban_factor_map, in tenths
urban_factor(area_type) ==
    IF area_type = "urban_center_extreme" THEN 45
    ELSE IF area_type = "urban_center_high" THEN 32
    ELSE IF area_type = "urban_center" THEN 20
    ELSE IF area_type = "industrial_heavy" THEN 35
    ELSE IF area_type = "industrial" THEN 25
    ELSE 10

\* the simulator's time-of-day factor, in tenths
traffic_pattern(hour) ==
    IF (7 <= hour /\ hour <= 9) \/ (17 <= hour /\ hour <= 20) THEN 18
    ELSE IF 12 <= hour /\ hour <= 14 THEN 13
    ELSE IF 23 <= hour \/ hour <= 5 THEN 6
    ELSE 10

\* in hundredths; wind_speed in tenths (the float of k / 10 exceeds the whole
\* number 15 exactly when k exceeds 150)
wind_factor(wind_speed) ==
    IF wind_speed > 150 THEN 50
    ELSE IF wind_speed > 100 THEN 70
    ELSE IF wind_speed > 50 THEN 85
    ELSE 100

\* in tenths; temp in tenths
temp_factor(temp) ==
    IF temp < 100 THEN 13
    ELSE IF temp > 300 THEN 12
    ELSE 10

-----------------------------------------------------------------------------
(* Pure functions of a concentration x (a float) *)

\* no2_level > n
Exceeds(no2_level, n) == FloatLess(FloatOfInt(n), no2_level)

_calculate_quality(x) ==
    IF FloatLess(x, FloatOfInt(40)) THEN "Buena"
    ELSE IF FloatLess(x, FloatOfInt(80)) THEN "Moderada"
    ELSE IF FloatLess(x, FloatOfInt(120)) THEN "Mala"
    ELSE IF FloatLess(x, FloatOfInt(160)) THEN "Muy Mala"
    ELSE "Peligrosa"

\* base + (x - from) * slope, slope in hundredths
AqiSegment(base, x, from, slope) ==
    FloatAdd(FloatOfInt(base),
             FloatMul(FloatSub(x, FloatOfInt(from)), Float(slope, 100)))

\* min(300, aqi) in the last branch only
AqiCap(aqi, cap) == IF cap THEN Min(300, aqi) ELSE aqi

\* int(base + (x - from) * slope) for the segment s
AqiOfSegment(x, s) == AqiCap(FloatInt(AqiSegment(s.base, x, s.from, s.slope)), s.cap)

\* the branch taken fixes the segment
_calculate_aqi(x) ==
    IF FloatLess(x, FloatOfInt(40)) THEN FloatInt(FloatMul(x, Float(125, 100)))
    ELSE AqiOfSegment(x, IF FloatLess(x, FloatOfInt(80))
                            THEN [base |-> 50, from |-> 40, slope |-> 125, cap |-> FALSE]
                         ELSE IF FloatLess(x, FloatOfInt(120))
                            THEN [base |-> 100, from |-> 80, slope |-> 150, cap |-> FALSE]
                         ELSE IF FloatLess(x, FloatOfInt(160))
                            THEN [base |-> 150, from |-> 120, slope |-> 200, cap |-> FALSE]
                         ELSE [base |-> 200, from |-> 160, slope |-> 250, cap |-> TRUE])

\* lines 214-222: the base risk raised by the area
EscalatedRisk(base_risk, area_type) ==
    IF area_type \in {"urban_center_extreme", "industrial_heavy"}
       THEN IF base_risk = "Bajo" THEN "Moderado"
            ELSE IF base_risk = "Moderado" THEN "Alto"
            ELSE IF base_risk = "Alto" THEN "Muy Alto"
            ELSE base_risk
    ELSE IF area_type \in {"urban_center_high", "industrial"}
       THEN IF base_risk = "Bajo" THEN "Moderado"
            ELSE IF base_risk = "Moderado" THEN "Alto"
            ELSE base_risk
    ELSE base_risk

_calculate_risk_level(no2_level, area_type) ==
    EscalatedRisk(IF Exceeds(no2_level, 150) THEN "Muy Alto"
                  ELSE IF Exceeds(no2_level, 100) THEN "Alto"
                  ELSE IF Exceeds(no2_level, 50) THEN "Moderado"
                  ELSE "Bajo",
                  area_type)

\* lines 434-436: the list, or the one default entry when it is empty
ReturnedFactors(factors) ==
    IF factors = <<>> THEN <<"Condiciones normales">> ELSE factors

_get_risk_factors(area_type, no2_level) ==
    ReturnedFactors(
            (IF Exceeds(no2_level, 80) THEN <<"Alta concentración de NO2">> ELSE <<>>) \o
            (IF Exceeds(no2_level, 120) THEN <<"Niveles peligrosos de contaminación">> ELSE <<>>) \o
            (IF area_type \in {"urban_center_high", "urban_center_extreme"}
                THEN <<"Alta densidad de tráfico vehicular">> ELSE <<>>) \o
            (IF area_type \in {"industrial", "industrial_heavy"}
                THEN <<"Proximidad a zonas industriales">> ELSE <<>>) \o
            (IF area_type = "urban_center_extreme"
                THEN <<"Zona crítica de contaminación">> ELSE <<>>))

_get_weather_condition(weather_data) ==
    LET temp == Get(weather_data.temperature, 200)
    IN  IF temp > 300 THEN "Caluroso"
        ELSE IF temp > 200 THEN "Templado"
        ELSE "Frío"

-----------------------------------------------------------------------------
(* Vulnerability analysis and recommendations *)

Contains(seq, x) == \E i \in 1..Len(seq) : seq[i] = x

protection_priority(risk_level) ==
    IF risk_level \in {"Alto", "Muy Alto"} THEN "Alta" ELSE "Media"

\* the dictionary of lines 97-103
VulnerabilityRecord(area_type, risk_level, no2_level) ==
    [area_type |-> area_type,
     vulnerable_groups |-> _identify_vulnerable_groups(area_type),
     risk_level |-> risk_level,
     risk_factors |-> _get_risk_factors(area_type, no2_level),
     protection_priority |-> protection_priority(risk_level)]

\* lines 94-103 once the area is classified
VulnerabilityOf(area_type, no2_level) ==
    VulnerabilityRecord(area_type, _calculate_risk_level(no2_level, area_type), no2_level)

_analyze_vulnerability(lat, lon, no2_level) ==
    VulnerabilityOf(_classify_area(lat, lon), no2_level)

_generate_recommendations(no2_level, risk_level, vulnerable_groups) ==
    [general |->
        IF Exceeds(no2_level, 80)
           THEN <<"Evitar actividades al aire libre prolongadas",
                  "Usar mascarilla en exteriores",
                  "Mantener ventanas cerradas">>
        ELSE IF Exceeds(no2_level, 50)
           THEN <<"Limitar actividades físicas intensas al aire libre",
                  "Monitorear síntomas respiratorios">>
        ELSE <<"Calidad del aire aceptable, tomar precauciones normales">>,
     for_schools |->
        IF Contains(vulnerable_groups, "schools") /\ Exceeds(no2_level, 70)
           THEN <<"Suspender educación física al aire libre",
                  "Mantener estudiantes en interiores durante recreo",
                  "Activar sistema de purificación de aire en aulas">>
        ELSE IF Contains(vulnerable_groups, "schools") /\ Exceeds(no2_level, 50)
           THEN <<"Reducir tiempo de actividades al aire libre",
                  "Monitorear estudiantes con asma o condiciones respiratorias">>
        ELSE <<>>,
     for_elderly |->
        IF Contains(vulnerable_groups, "elderly") /\ Exceeds(no2_level, 60)
           THEN <<"Evitar salidas no esenciales",
                  "Realizar ejercicios en interiores",
                  "Monitorear síntomas respiratorios">>
        ELSE IF Contains(vulnerable_groups, "elderly") /\ Exceeds(no2_level, 50)
           THEN <<"Limitar tiempo al aire libre",
                  "Tener medicamentos respiratorios a mano">>
        ELSE <<>>,
     for_health_centers |->
        IF Contains(vulnerable_groups, "hospitals") /\ Exceeds(no2_level, 60)
           THEN <<"Prepararse para posible aumento de casos respiratorios",
                  "Revisar inventario de medicamentos para asma",
                  "Alertar personal sobre condiciones ambientales">>
        ELSE <<>>,
     immediate_actions |->
        IF Exceeds(no2_level, 80)
           THEN <<"Activar protocolos de calidad del aire">>
        ELSE <<>>]

-----------------------------------------------------------------------------
(* Clock readings *)

\* datetime.utcnow().hour
HourOf(t) == (t \div 3600) % 24

\* the calendar day strftime('%Y-%m-%d') names, as a day number
DayOf(t) == t \div 86400

\* timedelta.seconds: the seconds component, the days component dropped
TimedeltaSeconds(delta) == delta % 86400

\* What the clock shows at each datetime.utcnow() of a call after its cache
\* check, in the order the live path reads it: line 344 (sim), the seven of
\* line 232 (trend), lines 56 (stamp), 247 (forecast), 79 (updated) and 84
\* (store).  The exception path reads lines 460 (stamp), 232, 247 and 490
\* (updated).  Here the readings after the upstream requests show t and the
\* store shows t2.
Readings(t, t2) ==
    [sim |-> t, trend |-> [i \in 1..7 |-> t], stamp |-> t, forecast |-> t,
     updated |-> t, store |-> t2]

-----------------------------------------------------------------------------
(* The upstream fetchers.  A response is what requests.get produced:       *)
(* raised (timeout, connection error), else a status code and the payload *)
(* fields, each present or absent.                                         *)

EmptyDict == [temperature |-> None, wind_speed |-> None, humidity |-> None]

\* round(x, 1) of an upstream value in hundredths, in tenths
Round1(x) == FloatRound(Float(x, 100), 10)

\* round(x, 2) of a concentration, in hundredths
Round2(x) == FloatRound(x, 100)

\* round(x, 2) of a numpy.float64, in hundredths: numpy multiplies by 100,
\* takes rint and divides by 100
NumpyRound2(x) == FloatRint(FloatMul(x, FloatOfInt(100)))

\* whether an exception leaves _get_weather_data (lines 327-329 catch all)
_get_weather_data_raises(resp) == FALSE

_get_weather_data(resp) ==
    IF ~resp.raised /\ resp.status_code = 200
       THEN [temperature |-> Some(Round1(Get(resp.temperature, 2000))),
             wind_speed |-> Some(Round1(Get(resp.windspeed, 500))),
             humidity |-> Some(Round1(Get(resp.humidity, 6000)))]
    ELSE EmptyDict

\* whether an exception leaves _get_openaq_data (lines 303-305 catch all)
_get_openaq_data_raises(resp) == FALSE

\* {'pm25': round(pm25, 2)} or {}; pm25 upstream in thousandths
_get_openaq_data(resp) ==
    IF ~resp.raised /\ resp.status_code = 200 /\ IsSome(resp.pm25) /\ resp.pm25[1] # 0
       THEN [pm25 |-> Some(FloatRound(Float(resp.pm25[1], 1000), 100))]
    ELSE [pm25 |-> None]

-----------------------------------------------------------------------------
(* The concentration simulator *)

\* lines 372-378: base_no2 times the four factors, plus noise, at least 5.0;
\* wind_speed and temp in tenths
SimulatedNo2(area_type, wind_speed, temp, t, rnd) ==
    [no2 |->
        FloatMax(Float(5, 1),
                 FloatAdd(FloatMul(FloatMul(FloatMul(FloatMul(
                              _get_base_no2_for_area(area_type, Sample(rnd.base)),
                              Float(urban_factor(area_type), 10)),
                              Float(traffic_pattern(HourOf(t)), 10)),
                              Float(wind_factor(wind_speed), 100)),
                              Float(temp_factor(temp), 10)),
                          Sample(rnd.final)))]

\* t: the clock reading of line 344; rnd.base, rnd.final: the normal samples
\* of lines 372 and 376
_simulate_tempo_advanced(lat, lon, weather_data, t, rnd) ==
    SimulatedNo2(_classify_area(lat, lon), Get(weather_data.wind_speed, 50),
                 Get(weather_data.temperature, 200), t, rnd)

-----------------------------------------------------------------------------
(* Trend and forecast *)

\* np.sin(i * 0.8) for i = 0..6: the floats nearest to the sines of the
\* floats i * 0.8
np_sin ==
    <<[neg |-> FALSE, m |-> <<>>, e |-> 0],
      [neg |-> FALSE, m |-> <<16077, 2815, 2380, 1469>>, e |-> -53],
      [neg |-> FALSE, m |-> <<709, 8065, 2076, 2047>>, e |-> -53],
      [neg |-> FALSE, m |-> <<4504, 5903, 5711, 1383>>, e |-> -53],
      [neg |-> TRUE, m |-> <<11570, 10144, 13171, 1912>>, e |-> -57],
      [neg |-> TRUE, m |-> <<7854, 14192, 15261, 1549>>, e |-> -53],
      [neg |-> TRUE, m |-> <<15871, 10288, 2377, 2040>>, e |-> -53]>>

\* max(10, base_no2 + daily_variation) of day i
TrendNo2(area_type, i, rnd) ==
    FloatMax(FloatOfInt(10),
             FloatAdd(_get_base_no2_for_area(area_type, Sample(rnd.trend_base[i + 1])),
                      FloatAdd(FloatMul(np_sin[i + 1], FloatOfInt(15)),
                               Sample(rnd.trend_var[i + 1]))))

\* the entry of day i; ts: the seven clock readings of line 232.  no2_value
\* is a numpy.float64 (np.sin gives one), or the int 10 of max(10, ...), which
\* either rounding leaves as it is
TrendDay(ts, i, no2_value) ==
    [date |-> DayOf(ts[i + 1] - (7 - i - 1) * 86400),
     no2 |-> NumpyRound2(no2_value),
     quality |-> _calculate_quality(no2_value)]

\* the loop of lines 231-242
TrendOf(area_type, ts, rnd) ==
    [j \in 1..7 |-> TrendDay(ts, j - 1, TrendNo2(area_type, j - 1, rnd))]

_generate_historical_trend(lat, lon, ts, rnd) ==
    TrendOf(_classify_area(lat, lon), ts, rnd)

\* the multiplier of lines 253-261, in tenths
traffic_peak(future_hour) ==
    IF 7 <= future_hour /\ future_hour <= 9 THEN 18
    ELSE IF 17 <= future_hour /\ future_hour <= 20 THEN 19
    ELSE IF 12 <= future_hour /\ future_hour <= 14 THEN 13
    ELSE IF 23 <= future_hour \/ future_hour <= 5 THEN 6
    ELSE 10

\* the multipliers the loop applies, in loop order
ForecastPeaks(t) == [j \in 1..24 |-> traffic_peak((HourOf(t) + (j - 1)) % 24)]

\* base_no2 * traffic_peak + noise of hour h of the loop
ForecastNo2(base_no2, current_hour, h, rnd) ==
    FloatAdd(FloatMul(base_no2, Float(traffic_peak((current_hour + h) % 24), 10)),
             Sample(rnd.fc_noise[h + 1]))

\* the entry of hour h of the loop
ForecastEntry(current_hour, h, hourly_no2) ==
    [hour |-> (current_hour + h) % 24,
     no2 |-> Round2(FloatMax(FloatOfInt(10), hourly_no2)),
     quality |-> _calculate_quality(hourly_no2)]

\* the loop of lines 251-270
ForecastOf(base_no2, current_hour, rnd) ==
    [j \in 1..24 |->
        ForecastEntry(current_hour, j - 1, ForecastNo2(base_no2, current_hour, j - 1, rnd))]

\* t: the clock reading of line 247
_generate_forecast(lat, lon, t, rnd) ==
    ForecastOf(_get_base_no2_for_area(_classify_area(lat, lon), Sample(rnd.fc_base)),
               HourOf(t), rnd)

\* center: the coordinates as given; coords: the floats lat + 0.01, lon + 0.01
_generate_risk_map_data(lat, lon) ==
    [center |-> <<lat, lon>>,
     risk_zones |-> <<[coords |-> [axis \in 1..2 |->
                                      FloatAdd(Degrees(<<lat, lon>>[axis]), Float(1, 100))],
                       risk |-> "high", radius |-> 1000]>>]

-----------------------------------------------------------------------------
(* Result assembly *)

\* the dictionary of lines 50-82; clk: the call's clock readings
LiveDict(lat, lon, openaq_data, weather_data, clk, rnd, tempo_simulation, vulnerability_analysis) ==
    [air_quality |->
        [no2_tropospheric |-> Round2(tempo_simulation.no2),
         pm25 |-> Get(openaq_data.pm25, 1550),
         quality_index |-> _calculate_quality(tempo_simulation.no2),
         aqi_value |-> _calculate_aqi(tempo_simulation.no2),
         timestamp |-> clk.stamp],
     weather |->
        [temperature |-> weather_data.temperature,
         wind_speed |-> weather_data.wind_speed,
         humidity |-> weather_data.humidity,
         condition |-> _get_weather_condition(weather_data)],
     vulnerability_analysis |-> vulnerability_analysis,
     recommendations |->
        _generate_recommendations(tempo_simulation.no2,
                                  vulnerability_analysis.risk_level,
                                  vulnerability_analysis.vulnerable_groups),
     visualization_data |->
        [historical_trend |-> _generate_historical_trend(lat, lon, clk.trend, rnd),
         forecast |-> _generate_forecast(lat, lon, clk.forecast, rnd),
         risk_map |-> _generate_risk_map_data(lat, lon)],
     metadata |->
        [data_source |-> "NASA TEMPO Simulation + OpenAQ + Open-Meteo",
         location |-> <<lat, lon>>,
         last_updated |-> clk.updated,
         resolution |-> "2km x 5.5km"]]

\* lines 40-82 once the simulation is made
LiveAnalysed(lat, lon, openaq_data, weather_data, clk, rnd, tempo_simulation) ==
    LiveDict(lat, lon, openaq_data, weather_data, clk, rnd, tempo_simulation,
             _analyze_vulnerability(lat, lon, tempo_simulation.no2))

\* lines 38-82 once the upstream data is fetched
LiveResult(lat, lon, openaq_data, weather_data, clk, rnd) ==
    LiveAnalysed(lat, lon, openaq_data, weather_data, clk, rnd,
                 _simulate_tempo_advanced(lat, lon, weather_data, clk.sim, rnd))

\* 'protection_priority' of line 473
fallback_protection_priority(fallback_no2) ==
    IF Exceeds(fallback_no2, 80) THEN "Alta" ELSE "Media"

\* the dictionary of lines 454-493
FallbackDict(lat, lon, clk, rnd, area_type, fallback_no2) ==
    [air_quality |->
        [no2_tropospheric |-> Round2(fallback_no2),
         pm25 |-> 1550,
         quality_index |-> _calculate_quality(fallback_no2),
         aqi_value |-> _calculate_aqi(fallback_no2),
         timestamp |-> clk.stamp],
     weather |->
        [temperature |-> Some(220),
         wind_speed |-> Some(50),
         humidity |-> Some(600),
         condition |-> "Templado"],
     vulnerability_analysis |->
        [area_type |-> area_type,
         risk_level |-> _calculate_risk_level(fallback_no2, area_type),
         vulnerable_groups |-> _identify_vulnerable_groups(area_type),
         risk_factors |-> _get_risk_factors(area_type, fallback_no2),
         protection_priority |-> fallback_protection_priority(fallback_no2)],
     recommendations |->
        [general |-> <<"Monitorear calidad del aire", "Evitar zonas de alto tráfico">>,
         for_schools |-> <<"Limitar recreo al aire libre si la calidad empeora">>,
         for_elderly |-> <<"Tomar precauciones normales">>,
         for_health_centers |-> <<"Estar preparado para consultas respiratorias">>,
         immediate_actions |-> <<>>],
     visualization_data |->
        [historical_trend |-> _generate_historical_trend(lat, lon, clk.trend, rnd),
         forecast |-> _generate_forecast(lat, lon, clk.forecast, rnd),
         risk_map |-> _generate_risk_map_data(lat, lon)],
     metadata |->
        [data_source |-> "Fallback data",
         location |-> <<lat, lon>>,
         last_updated |-> clk.updated,
         resolution |-> "2km x 5.5km"]]

\* lines 452-493 once the area is classified; rnd.base: the normal sample of
\* line 452
FallbackOf(lat, lon, clk, rnd, area_type) ==
    FallbackDict(lat, lon, clk, rnd, area_type,
                 _get_base_no2_for_area(area_type, Sample(rnd.base)))

_get_fallback_dashboard(lat, lon, clk, rnd) ==
    FallbackOf(lat, lon, clk, rnd, _classify_area(lat, lon))

-----------------------------------------------------------------------------
(* The cache *)

\* self.cache_ttl
cache_ttl == 300

\* str(round(x, 2)) of a coordinate: the sign the float carries (round keeps
\* it, so -0.001 gives '-0.0') and the hundredths
RoundedDegrees(degrees) == <<degrees.neg, FloatRound(FloatAbs(degrees), 100)>>

KeyPart(x) == RoundedDegrees(Degrees(x))

\* f"{round(lat, 2)}_{round(lon, 2)}"
cache_key(lat, lon) == <<KeyPart(lat), KeyPart(lon)>>

\* the age test with its comparison inverted
CacheFreshInverted(c, k, t) ==
    /\ k \in DOMAIN c
    /\ TimedeltaSeconds(t - c[k].timestamp) > cache_ttl

\* lines 29-31: the entry exists and passes the age test
CacheFresh(c, k, t) ==
    /\ k \in DOMAIN c
    /\ TimedeltaSeconds(t - c[k].timestamp) < cache_ttl

\* line 84: self.cache[cache_key] = (result, datetime.utcnow())
CacheStore(c, k, result, t) ==
    [x \in DOMAIN c \cup {k} |->
        IF x = k THEN [data |-> result, timestamp |-> t] ELSE c[x]]

\* whether the try body of lines 34-86 raises: a fetcher lets an exception
\* out, or a later statement faults
TryRaises(env, fault) ==
    \/ _get_openaq_data_raises(env.aq)
    \/ _get_weather_data_raises(env.wx)
    \/ fault

-----------------------------------------------------------------------------
(* Inputs: the requested points, the clock readings, and what the outside  *)
(* world answers (upstream responses and the normal samples drawn).        *)

\* Mexico City as in the spec's example, a second point of the same cache
\* key, and an equatorial (residential) point
Coordinates == {<<194326, -991332>>, <<194341, -991290>>, <<50000, 50000>>}

\* the largest whole number of days the clock runs
MaxDays == 1

\* the longest the two upstream requests of one call take, in seconds
MaxWait == 20

\* Clock readings: a start and a reading a slow call's requests later, an
\* age at the TTL, and readings shortly before and after whole days
TimePoints == {0, 14, 300}
                \cup {d * 86400 - 10 : d \in 1..MaxDays}
                \cup {d * 86400 + 4 : d \in 1..MaxDays}

\* what a call that checks the cache at t0 can read afterwards
ReadingsFrom(t0) ==
    {Readings(t, t2) : <<t, t2>> \in
        {w \in TimePoints \X TimePoints :
            t0 <= w[1] /\ w[1] <= w[2] /\ w[2] <= t0 + MaxWait}}

WxTimeout == [raised |-> TRUE, status_code |-> 0,
              temperature |-> None, windspeed |-> None, humidity |-> None]

\* a 200 answer without humidity, its numbers decimal ties
WxPartial == [raised |-> FALSE, status_code |-> 200,
              temperature |-> Some(3005), windspeed |-> Some(995), humidity |-> None]

AqTimeout == [raised |-> TRUE, status_code |-> 0, pm25 |-> None]

AqValue == [raised |-> FALSE, status_code |-> 200, pm25 |-> Some(12347)]

Zeros(n) == [j \in 1..n |-> 0]

RndZero == [base |-> 0, final |-> 0, trend_base |-> Zeros(7), trend_var |-> Zeros(7),
            fc_base |-> 0, fc_noise |-> Zeros(24)]

RndLow == [base |-> -28000, final |-> -3000,
           trend_base |-> [j \in 1..7 |-> -12000],
           trend_var |-> [j \in 1..7 |-> (2 * j - 16) * 1000],
           fc_base |-> -20000,
           fc_noise |-> [j \in 1..24 |-> IF j % 2 = 0 THEN 4000 ELSE -4000]]

Environments ==
    {[wx |-> WxTimeout, aq |-> AqValue, rnd |-> RndZero],
     [wx |-> WxPartial, aq |-> AqTimeout, rnd |-> RndLow]}

\* the readings any call of the specifications can make
Clocks == UNION {ReadingsFrom(t0) : t0 \in TimePoints}

\* LiveResult for the inputs above
LiveResults ==
    [p \in Coordinates, env \in Environments, clk \in Clocks |->
        LiveResult(p[1], p[2], _get_openaq_data(env.aq), _get_weather_data(env.wx),
                   clk, env.rnd)]

\* _get_fallback_dashboard for the inputs above
FallbackResults ==
    [p \in Coordinates, env \in Environments, clk \in Clocks |->
        _get_fallback_dashboard(p[1], p[2], clk, env.rnd)]

\* cache_key for the points above
CacheKeys == [p \in Coordinates |-> cache_key(p[1], p[2])]

\* line 27, for a point above
KeyOf(lat, lon) == CacheKeys[<<lat, lon>>]

\* the weather readings of the responses above
WeatherReadings == {3005, 995}

\* round(x, 1) for the readings above
RoundedReadings == [x \in WeatherReadings |-> Round1(x)]

-----------------------------------------------------------------------------
(* The state machine: one processor (line 495), its cache, the clock, and  *)
(* what the latest get_air_quality_dashboard call did and returned.        *)

NoCall == [lat |-> 0, lon |-> 0, t |-> 0, clk |-> None, path |-> "none", ret |-> None,
           env |-> None, fault |-> FALSE, fetched |-> FALSE, simulated |-> FALSE,
           peaks |-> <<>>]

\* lines 29-32: the cached result, returned as it is
HitOutcome(lat, lon, t, c) ==
    [lat |-> lat, lon |-> lon, t |-> t, clk |-> None, path |-> "hit",
     ret |-> Some(c[KeyOf(lat, lon)].data), env |-> None,
     fault |-> FALSE, fetched |-> FALSE, simulated |-> FALSE, peaks |-> <<>>]

\* lines 34-86; t: the reading of the cache check, clk: the later ones
LiveOutcome(lat, lon, t, env, fault, clk) ==
    [lat |-> lat, lon |-> lon, t |-> t, clk |-> Some(clk), path |-> "live",
     ret |-> Some(LiveResults[<<<<lat, lon>>, env, clk>>]),
     env |-> Some(env), fault |-> fault,
     fetched |-> TRUE, simulated |-> TRUE, peaks |-> ForecastPeaks(clk.forecast)]

\* lines 88-90
FallbackOutcome(lat, lon, t, env, fault, clk) ==
    [lat |-> lat, lon |-> lon, t |-> t, clk |-> Some(clk), path |-> "fallback",
     ret |-> Some(FallbackResults[<<<<lat, lon>>, env, clk>>]),
     env |-> Some(env), fault |-> fault,
     fetched |-> TRUE, simulated |-> TRUE, peaks |-> ForecastPeaks(clk.forecast)]

\* the cache after the exception path
FallbackCache(c, k, outcome) == c

\* get_air_quality_dashboard, lines 26-90, begun when the clock shows now;
\* clk: what the clock shows at its later readings.  On return the clock
\* shows the last reading made.
get_air_quality_dashboard(lat, lon, env, fault, clk) ==
    IF CacheFresh(cache, KeyOf(lat, lon), now)
       THEN /\ last' = HitOutcome(lat, lon, now, cache)
            /\ cache' = cache
            /\ now' = now
    ELSE IF TryRaises(env, fault)
       THEN /\ last' = FallbackOutcome(lat, lon, now, env, fault, clk)
            /\ cache' = FallbackCache(cache, KeyOf(lat, lon), last')
            /\ now' = clk.updated
    ELSE /\ last' = LiveOutcome(lat, lon, now, env, fault, clk)
         /\ cache' = CacheStore(cache, KeyOf(lat, lon), last'.ret[1], clk.store)
         /\ now' = clk.store

Call ==
    \E p \in Coordinates, env \in Environments, fault \in BOOLEAN,
       clk \in ReadingsFrom(now) :
        /\ get_air_quality_dashboard(p[1], p[2], env, fault, clk)
        /\ UNCHANGED <<reqs, probe>>

\* the clock advances
Tick ==
    \E t \in TimePoints :
        /\ t > now
        /\ now' = t
        /\ UNCHANGED <<cache, last, reqs, probe>>

NoRequests == <<>>

NoProbe == [x |-> None, y |-> None, fx |-> None, fy |-> None]

Init ==
    /\ cache = [k \in {} |-> None]
    /\ now = 0
    /\ last = NoCall
    /\ reqs = NoRequests
    /\ probe = NoProbe

Next == Call \/ Tick

Spec == Init /\ [][Next]_vars

-----------------------------------------------------------------------------
(* Concurrent requests to /api/dashboard.  get_dashboard_data (lines       *)
(* 497-506) is a coroutine that calls the blocking                         *)
(* processor.get_air_quality_dashboard with no await in between, so a      *)
(* handler that has begun occupies the event loop until it returns.  The   *)
(* handler is split where it blocks: the cache check, then the upstream    *)
(* fetches with the rest of the try body.  The clock may advance while a   *)
(* handler waits for its fetches.                                          *)

\* the number of requests in flight at once
NumRequests == 2

Requests == 1..NumRequests

\* a request slot.  Kept for the properties: cold, whether the cache held no
\* fresh entry for the key when the request arrived; seen and checked, the
\* entry found and the clock read at the cache check; fetched, whether the
\* handler went on to the upstream fetches; stored, the timestamp of the
\* entry it stored
Idle ==
    [pc |-> "idle", lat |-> 0, lon |-> 0, cold |-> FALSE, seen |-> None, checked |-> 0,
     fetched |-> FALSE, stored |-> None]

\* the points and the answers of the outside world used for this part
ConcCoordinates == {<<194326, -991332>>, <<50000, 50000>>}

ConcTimePoints == {0, 14, 300}

ConcEnvironments ==
    {[wx |-> WxTimeout, aq |-> AqValue, rnd |-> RndZero],
     [wx |-> WxPartial, aq |-> AqTimeout, rnd |-> RndLow]}

\* a plain def endpoint, run on the thread pool: handlers overlap
LoopFreeThreadPool == TRUE

\* lines 497-501: the event loop runs one handler at a time to its return
LoopFree == \A r \in Requests : reqs[r].pc # "running"

\* the entry a handler finds under its key
Seen(c, k) == IF k \in DOMAIN c THEN Some(c[k]) ELSE None

\* a request reaches the server and waits for the event loop
Arrive ==
    \E r \in Requests, p \in ConcCoordinates :
        /\ reqs[r].pc = "idle"
        /\ reqs' = [reqs EXCEPT ![r] =
                        [pc |-> "pending", lat |-> p[1], lon |-> p[2],
                         cold |-> ~CacheFresh(cache, KeyOf(p[1], p[2]), now),
                         seen |-> None, checked |-> 0, fetched |-> FALSE, stored |-> None]]
        /\ UNCHANGED <<cache, now, last, probe>>

\* lines 26-32: the handler starts and checks the cache
Begin ==
    \E r \in Requests :
        /\ reqs[r].pc = "pending"
        /\ LoopFree
        /\ IF CacheFresh(cache, KeyOf(reqs[r].lat, reqs[r].lon), now)
              THEN /\ last' = HitOutcome(reqs[r].lat, reqs[r].lon, now, cache)
                   /\ reqs' = [reqs EXCEPT ![r].pc = "done", ![r].checked = now]
           ELSE /\ last' = last
                /\ reqs' = [reqs EXCEPT ![r].pc = "running",
                                        ![r].seen = Seen(cache, KeyOf(reqs[r].lat, reqs[r].lon)),
                                        ![r].checked = now,
                                        ![r].fetched = TRUE]
        /\ UNCHANGED <<cache, now, probe>>

\* lines 34-90: the fetches return, the result is assembled and stored, or
\* the exception path is taken; clk: what the clock shows at the readings
\* made on the way
Finish ==
    \E r \in Requests, env \in ConcEnvironments, fault \in BOOLEAN,
       clk \in ReadingsFrom(now) :
        /\ reqs[r].pc = "running"
        /\ IF TryRaises(env, fault)
              THEN /\ last' = FallbackOutcome(reqs[r].lat, reqs[r].lon,
                                              reqs[r].checked, env, fault, clk)
                   /\ cache' = FallbackCache(cache, KeyOf(reqs[r].lat, reqs[r].lon), last')
                   /\ now' = clk.updated
                   /\ reqs' = [reqs EXCEPT ![r].pc = "done"]
           ELSE /\ last' = LiveOutcome(reqs[r].lat, reqs[r].lon,
                                       reqs[r].checked, env, fault, clk)
                /\ cache' = CacheStore(cache, KeyOf(reqs[r].lat, reqs[r].lon),
                                       last'.ret[1], clk.store)
                /\ now' = clk.store
                /\ reqs' = [reqs EXCEPT ![r].pc = "done", ![r].stored = Some(clk.store)]
        /\ UNCHANGED probe

\* the response is sent
Respond ==
    \E r \in Requests :
        /\ reqs[r].pc = "done"
        /\ reqs' = [reqs EXCEPT ![r] = Idle]
        /\ UNCHANGED <<cache, now, last, probe>>

TickConc ==
    \E t \in ConcTimePoints :
        /\ t > now
        /\ now' = t
        /\ UNCHANGED <<cache, last, reqs, probe>>

InitConc ==
    /\ cache = [k \in {} |-> None]
    /\ now = 0
    /\ last = NoCall
    /\ reqs = [r \in Requests |-> Idle]
    /\ probe = NoProbe

NextConc == Arrive \/ Begin \/ Finish \/ Respond \/ TickConc

SpecConc == InitConc /\ [][NextConc]_vars

-----------------------------------------------------------------------------
(* _calculate_aqi on its own: a pair of concentrations x <= y is drawn and *)
(* the function applied to both.                                           *)

\* the largest concentration probed, in whole units
MaxConcentration == 210

\* how far below zero the concentrations probed go, in whole units
MaxBelowZero == 2

\* What the program can pass, in fifths of a unit: the live path any value
\* from its 5.0 floor up, the exception path the unfloored sum of an area
\* mean and a normal sample, which can be below 5 and below zero
AqiInputs == (-5 * MaxBelowZero)..(5 * MaxConcentration)

\* the float of a concentration given in fifths
Fifths(n) == Float(n, 5)

\* _calculate_aqi for the inputs above
AqiValues == [n \in AqiInputs |-> _calculate_aqi(Fifths(n))]

InitAqi ==
    /\ cache = [k \in {} |-> None]
    /\ now = 0
    /\ last = NoCall
    /\ reqs = NoRequests
    /\ probe \in {[x |-> Some(c), y |-> None, fx |-> None, fy |-> None] : c \in AqiInputs}

ApplyAqi ==
    /\ probe.y = None
    /\ \E y \in AqiInputs :
        /\ probe.x[1] <= y
        /\ probe' = [x |-> probe.x, y |-> Some(y),
                     fx |-> Some(AqiValues[probe.x[1]]),
                     fy |-> Some(AqiValues[y])]
    /\ UNCHANGED <<cache, now, last, reqs>>

NextAqi == ApplyAqi

SpecAqi == InitAqi /\ [][NextAqi]_vars

-----------------------------------------------------------------------------
(* Properties *)

Returned == last.path # "none"

Ret == last.ret[1]

LastKey == KeyOf(last.lat, last.lon)

\* C1: a lookup returns the stored result only when the entry's age, now
\* minus its creation timestamp, is strictly less than 300 seconds; an entry
\* of age 300 or more, however large, is a miss.
C1_HitOnlyBelowTtl ==
    last.path = "hit" =>
        /\ LastKey \in DOMAIN cache
        /\ last.t - cache[LastKey].timestamp < 300

\* C2 as stated: a cache-missing call during which the weather fetch or the
\* OpenAQ fetch fails returns the fallback result.
C2_FetchFailureGivesFallback ==
    (last.path \in {"live", "fallback"} /\ (last.env[1].wx.raised \/ last.env[1].aq.raised))
        => Ret.metadata.data_source = "Fallback data"

\* C3: fallback results are never cached: no cache entry holds a result
\* whose data_source is "Fallback data", a call that takes the exception
\* path leaves the cache as it was, and so the next call for the same key
\* after a call that took the exception path recomputes: it is not served
\* from the cache.
C3_FallbackNeverCached ==
    /\ [](\A k \in DOMAIN cache : cache[k].data.metadata.data_source # "Fallback data")
    /\ [][(last' # last /\ last'.path = "fallback") => cache' = cache]_vars
    /\ [][(/\ last.path = "fallback"
           /\ last' # last
           /\ KeyOf(last'.lat, last'.lon) = KeyOf(last.lat, last.lon))
              => last'.path \in {"live", "fallback"}]_vars

\* C4: the concentration reported in any returned result, live or fallback,
\* is at least 5.0.
C4_ConcentrationAtLeastFive ==
    Returned => Ret.air_quality.no2_tropospheric >= 500

\* C5: _calculate_aqi is non-decreasing and bounded to [0, 300], with
\* AQI(200) = 300.
C5_AqiMonotoneBounded ==
    IsSome(probe.fy) =>
        /\ probe.fx[1] <= probe.fy[1]
        /\ 0 <= probe.fx[1] /\ probe.fx[1] <= 300
        /\ 0 <= probe.fy[1] /\ probe.fy[1] <= 300
        /\ probe.x[1] = 5 * 200 => probe.fx[1] = 300

\* C6: a call for the coordinates of an entry stored less than 300 seconds
\* before returns that entry's result, every field of it, and performs no
\* upstream fetch, no simulation and no cache write.
C6_SecondCallServedFromCache ==
    [][LET k == KeyOf(last'.lat, last'.lon)
       IN  (/\ last' # last
            /\ last'.t = now
            /\ k \in DOMAIN cache
            /\ cache[k].data.metadata.location = <<last'.lat, last'.lon>>
            /\ cache[k].timestamp <= now
            /\ now - cache[k].timestamp < 300)
           => /\ last'.path = "hit"
              /\ last'.ret = Some(cache[k].data)
              /\ ~last'.fetched
              /\ ~last'.simulated
              /\ cache' = cache]_vars

C6_Witness ==
    /\ last.path = "hit"
    /\ Ret.metadata.location = <<last.lat, last.lon>>
    /\ Ret.metadata.data_source = "NASA TEMPO Simulation + OpenAQ + Open-Meteo"
    /\ cache[LastKey].timestamp < last.t
    /\ last.t - cache[LastKey].timestamp < 300
    /\ Ret.metadata.last_updated < cache[LastKey].timestamp

\* C8: in every returned result the weather temperature, wind_speed and
\* humidity are numbers, never None; on the live path they are the upstream
\* values (to one decimal) when present and 20, 5 and 60 when absent.
C8_WeatherDefaultsSubstituted ==
    Returned =>
        /\ IsSome(Ret.weather.temperature)
        /\ IsSome(Ret.weather.wind_speed)
        /\ IsSome(Ret.weather.humidity)
        /\ last.path = "live" =>
              LET wx == last.env[1].wx
                  up(field, default) ==
                      IF ~wx.raised /\ wx.status_code = 200 /\ IsSome(field)
                         THEN RoundedReadings[field[1]]
                         ELSE default
              IN  /\ Ret.weather.temperature = Some(up(wx.temperature, 200))
                  /\ Ret.weather.wind_speed = Some(up(wx.windspeed, 50))
                  /\ Ret.weather.humidity = Some(up(wx.humidity, 600))

\* C9: in every returned result, protection_priority is 'Alta' exactly when
\* risk_level is 'Alto' or 'Muy Alto', and 'Media' otherwise.
C9_PriorityFollowsRiskLevel ==
    Returned =>
        LET va == Ret.vulnerability_analysis
        IN  va.protection_priority =
                (IF va.risk_level \in {"Alto", "Muy Alto"} THEN "Alta" ELSE "Media")

\* C10: the forecast has 24 entries, one per consecutive hour from the
\* current hour, and the multiplier applied for each hour is the simulator's
\* traffic_pattern for that hour.
C10_ForecastUsesTrafficPattern ==
    last.path \in {"live", "fallback"} =>
        LET forecast == Ret.visualization_data.forecast
        IN  /\ Len(forecast) = 24
            /\ Len(last.peaks) = 24
            /\ \A j \in 1..24 :
                  /\ forecast[j].hour = (HourOf(last.clk[1].forecast) + (j - 1)) % 24
                  /\ last.peaks[j] = traffic_pattern(forecast[j].hour)

\* C7 as stated: the read-check-then-write on the cache is mutually
\* exclusive: at most one recomputation for a key is in progress at any
\* time, no request overwrites an entry stored since its check, and two
\* requests for one key that both arrived with no fresh entry never both
\* fetch upstream.
C7_NoDuplicateFetch ==
    /\ [](\A r1, r2 \in Requests :
            (/\ r1 # r2 /\ reqs[r1].pc # "idle" /\ reqs[r2].pc # "idle"
             /\ KeyOf(reqs[r1].lat, reqs[r1].lon) = KeyOf(reqs[r2].lat, reqs[r2].lon)
             /\ reqs[r1].pc = "running")
                => reqs[r2].pc # "running")
    /\ [][\A r \in Requests :
            (reqs[r].pc = "running" /\ reqs'[r].pc = "done")
                => Seen(cache, KeyOf(reqs[r].lat, reqs[r].lon)) = reqs[r].seen]_vars
    /\ [](\A r1, r2 \in Requests :
            (/\ r1 # r2 /\ reqs[r1].pc # "idle" /\ reqs[r2].pc # "idle"
             /\ KeyOf(reqs[r1].lat, reqs[r1].lon) = KeyOf(reqs[r2].lat, reqs[r2].lon)
             /\ reqs[r1].cold /\ reqs[r2].cold)
                => ~(reqs[r1].fetched /\ reqs[r2].fetched))

\* C7 amended: at most one recomputation for a key is in progress at any
\* time, a recomputation stores over exactly the entry it found at its
\* check, so no request overwrites an entry stored since, and a request goes
\* on to the upstream fetches after another request for its key has stored
\* an entry only when that entry was stored at least 300 seconds before; it
\* also fetches when the other request took the exception path and stored
\* nothing.
C7_RecomputationExclusive ==
    /\ [](\A r1, r2 \in Requests :
            (/\ r1 # r2 /\ reqs[r1].pc # "idle" /\ reqs[r2].pc # "idle"
             /\ KeyOf(reqs[r1].lat, reqs[r1].lon) = KeyOf(reqs[r2].lat, reqs[r2].lon)
             /\ reqs[r1].pc = "running")
                => reqs[r2].pc # "running")
    /\ [][\A r \in Requests :
            (reqs[r].pc = "running" /\ reqs'[r].pc = "done")
                => Seen(cache, KeyOf(reqs[r].lat, reqs[r].lon)) = reqs[r].seen]_vars
    /\ [][\A r1, r2 \in Requests :
            (/\ r1 # r2 /\ reqs[r1].pc # "idle" /\ reqs[r2].pc # "idle"
             /\ KeyOf(reqs[r1].lat, reqs[r1].lon) = KeyOf(reqs[r2].lat, reqs[r2].lon)
             /\ IsSome(reqs[r1].stored)
             /\ reqs[r2].pc = "pending"
             /\ reqs'[r2].pc = "running")
                => now - reqs[r1].stored[1] >= 300]_vars

\* two requests for one key that both arrived with no fresh entry: the
\* first fetched, took the exception path and stored nothing, the second is
\* fetching
C7_Witness ==
    \E r1, r2 \in Requests :
        /\ r1 # r2 /\ reqs[r1].pc # "idle" /\ reqs[r2].pc # "idle"
        /\ KeyOf(reqs[r1].lat, reqs[r1].lon) = KeyOf(reqs[r2].lat, reqs[r2].lon)
        /\ reqs[r1].cold /\ reqs[r2].cold
        /\ reqs[r1].pc = "done" /\ reqs[r1].fetched /\ reqs[r1].stored = None
        /\ reqs[r2].pc = "running"

\* C11: every returned result echoes the requesting call's own coordinates:
\* its metadata.location and its risk_map centre are that call's lat and
\* lon, also when the result is served from the cache after a request for
\* other coordinates of the same 2-decimal key.
C11_ResultEchoesOwnCoordinates ==
    Returned =>
        /\ Ret.metadata.location = <<last.lat, last.lon>>
        /\ Ret.visualization_data.risk_map.center = <<last.lat, last.lon>>

====
